---- MODULE Spec2Model ----
(***************************************************************************)
(* RanchoFinanzas: the offline-first ledger.  The local Dexie store        *)
(* (db.js), the push/pull synchronisation engine (sync.js) and the         *)
(* handlers that call them (form submit, delete, manual sync, the          *)
(* online/offline listeners), together with the remote ledger they talk    *)
(* to.  Every await of the JavaScript code at which another handler can    *)
(* run is a separate step of the model.                                    *)
(***************************************************************************)
EXTENDS Integers, FiniteSets, Sequences, TLC

(* ---------------------------- bounds ----------------------------------- *)

\* the clock runs from 1 to MaxClock
MaxClock == 2
\* largest auto-increment key the local table hands out (adds plus pull
\* inserts)
MaxKey == 2

\* the two places that call syncPendingTransactions: the 'online' listener
\* and the "Sincronizar ahora" click handler
Procs == {"online", "manual"}
\* the amount typed into the form: empty or zero (refused) or positive
FormMontos == {0, 100}
\* the amounts of rows that another device wrote or that were edited by hand
RemoteMontos == {200}
\* the amounts of rows typed into the sheet by hand: an empty or zero cell,
\* or a positive amount
HandMontos == {0, 200}
\* ids of rows written to the remote ledger by other devices
OtherIds == {11}
\* ids of rows typed into the sheet by hand
HandIds == {12}
\* the id of a remote row whose id cell is empty (falsy in JavaScript)
NoId == 0
\* the createdAt of a remote row whose createdAt cell is empty
NoTime == 0
\* the kind chosen in the form: income or expense
Tipos == {"ingreso", "gasto"}
\* calendar days (values of input-fecha and of getToday), numbered like the
\* clock
Days == 1..MaxClock
\* the fecha of a remote row whose fecha cell is empty
NoDay == 0
\* the amounts typed into the form of the reports' scenario
ReportMontos == {0, 500}
\* the host's time zone: local time minus UTC, in hours
TzOffsets == {-6, 0, 2}
\* the photo attached in the form: none (null), or an image as a data URL
Photos == {"", "img"}
\* values of localStorage['api_url']: unset, or the configured base URL
Urls == {"", "https://api"}

(* ------------------------- pure helpers -------------------------------- *)

\* utils.js generateId: a fresh UUID, a value no earlier call returned and
\* no other device uses.  n is the table's auto-increment counter, which
\* never repeats, so n itself is such a value (OtherIds lie above MaxKey).
GenerateIdSame(n) == 1
GenerateId(n) == n

\* db.js addTransaction(transaction): the table after add({...transaction,
\* syncStatus: 'pending', createdAt: new Date()}) at time at; the fields
\* written after the spread replace those of the input, and key is the
\* auto-increment key given to the record (the input carries no localId)
addTransactionKeep(store, key, transaction, at) ==
    store \cup {[f \in DOMAIN transaction \cup
                          {"localId", "syncStatus", "createdAt"} |->
                   CASE f \in DOMAIN transaction -> transaction[f]
                     [] f = "localId" -> key
                     [] f = "syncStatus" -> "pending"
                     [] OTHER -> at]}
addTransaction(store, key, transaction, at) ==
    store \cup {[f \in DOMAIN transaction \cup
                          {"localId", "syncStatus", "createdAt"} |->
                   CASE f = "localId" -> key
                     [] f = "syncStatus" -> "pending"
                     [] f = "createdAt" -> at
                     [] OTHER -> transaction[f]]}

\* db.js deleteTransaction(localId): db.transactions.delete(localId); the
\* table afterwards and whether the promise is rejected.  Dexie's delete
\* resolves whether or not the key exists.
deleteTransactionStrict(store, k) ==
    [store |-> {t \in store : t.localId # k},
     rejected |-> \A t \in store : t.localId # k]
deleteTransaction(store, k) ==
    [store |-> {t \in store : t.localId # k}, rejected |-> FALSE]

\* db.js getPendingTransactions: the records whose syncStatus is 'pending',
\* read from the table by its syncStatus index at the time of the call
getPendingTransactionsAll(store) == store
getPendingTransactions(store) == {t \in store : t.syncStatus = "pending"}

\* db.js markAsSynced: modify({syncStatus:'synced'}) on the records whose
\* localId is among localIds; other records and other fields are untouched
MarkNoneSynced(store, localIds) == store
MarkAllSynced(store, localIds) ==
    IF localIds = {} THEN store
                     ELSE {[t EXCEPT !.syncStatus = "synced"] : t \in store}
markAsSynced(store, localIds) ==
    {IF t.localId \in localIds THEN [t EXCEPT !.syncStatus = "synced"] ELSE t
       : t \in store}

\* sync.js push body: one entry per pending record, made of the listed
\* fields of the record (localId, syncStatus and comprobante are not listed)
SerializeAll(t) == t
Serialize(t) ==
    [id |-> t.id, tipo |-> t.tipo, monto |-> t.monto, fecha |-> t.fecha,
     createdAt |-> t.createdAt]

\* the remote ledger's POST /api/sync: stores every entry of the batch under
\* its id (a row with that id is replaced)
RemoteStore(rem, body) ==
    {r \in rem : \A b \in body : b.id # r.id} \cup body

\* sync.js pull, fetch(API_URL + '/api/transactions'): the rows of the
\* response when the ledger holds rem and the stored watermark is w.  The
\* request carries nothing derived from the watermark and the whole ledger
\* is returned (PullRowsSince: a request scoped by the watermark).
PullRowsSince(rem, w) == {r \in rem : r.createdAt = NoTime \/ r.createdAt > w}
PullRows(rem, w) == rem

\* sync.js pull loop, if (!t.id) continue: whether the row t is processed
HasIdAlways(t) == TRUE
HasId(t) == t.id # NoId

\* JavaScript Number(v) on a JSON number
Number(v) == v

\* sync.js pull: the object built from a remote row t at time at
FromRemote(t, at) ==
    [id |-> t.id, tipo |-> t.tipo, monto |-> Number(t.monto),
     fecha |-> t.fecha,
     createdAt |-> IF t.createdAt = NoTime THEN at ELSE t.createdAt]

\* db.js upsertRemoteTransaction(obj): the store afterwards; key is the next
\* auto-increment key.  The object carries no comprobante, so an inserted
\* record has none.
UpsertStoreAlways(store, key, obj) ==
    IF \A t \in store : t.id # obj.id
      THEN store \cup {[localId |-> key, id |-> obj.id, tipo |-> obj.tipo,
                        monto |-> obj.monto, fecha |-> obj.fecha,
                        comprobante |-> "", createdAt |-> obj.createdAt,
                        syncStatus |-> "synced"]}
      ELSE {IF t.id = obj.id
              THEN [t EXCEPT !.tipo = obj.tipo, !.monto = obj.monto,
                             !.fecha = obj.fecha,
                             !.createdAt = obj.createdAt,
                             !.syncStatus = "synced"]
              ELSE t : t \in store}
UpsertStoreInsertOnly(store, key, obj) ==
    IF \A t \in store : t.id # obj.id
      THEN store \cup {[localId |-> key, id |-> obj.id, tipo |-> obj.tipo,
                        monto |-> obj.monto, fecha |-> obj.fecha,
                        comprobante |-> "", createdAt |-> obj.createdAt,
                        syncStatus |-> "synced"]}
      ELSE store
UpsertStore(store, key, obj) ==
    IF \A t \in store : t.id # obj.id
      THEN store \cup {[localId |-> key, id |-> obj.id, tipo |-> obj.tipo,
                        monto |-> obj.monto, fecha |-> obj.fecha,
                        comprobante |-> "", createdAt |-> obj.createdAt,
                        syncStatus |-> "synced"]}
      ELSE {IF t.id = obj.id /\ t.syncStatus = "synced"
              THEN [t EXCEPT !.tipo = obj.tipo, !.monto = obj.monto,
                             !.fecha = obj.fecha,
                             !.createdAt = obj.createdAt]
              ELSE t : t \in store}

\* db.js upsertRemoteTransaction(obj): TRUE iff a new record was inserted
UpsertWasNewNever(store, obj) == FALSE
UpsertWasNewAlways(store, obj) == TRUE
UpsertWasNew(store, obj) == \A t \in store : t.id # obj.id

\* sync.js pull loop: if (wasNew) inserted++
PullCountAll(ins, wasNew) == ins + 1
PullCount(ins, wasNew) == IF wasNew THEN ins + 1 ELSE ins

\* JavaScript new Date('YYYY-MM-DD') for day d: midnight UTC of that day,
\* as an instant in hours
DateOf(d) == d * 24

\* JavaScript setHours(0, 0, 0, 0) and setHours(23, 59, 59, 999) on an
\* instant, in a host whose local time is UTC + tz: the first and the last
\* hour of the instant's local day
StartOfDay(instant, tz) == ((instant + tz) \div 24) * 24 - tz
EndOfDay(instant, tz) == StartOfDay(instant, tz) + 23

\* db.js getTransactionsByDateRange(startDate, endDate): the records whose
\* fecha, as a Date, lies between the start of startDate's local day and
\* the end of endDate's; a record without fecha gives an invalid Date,
\* which compares false
getTransactionsByDateRangeOpen(store, startDate, endDate, tz) ==
    {t \in store :
       /\ t.fecha # NoDay
       /\ DateOf(t.fecha) >= StartOfDay(DateOf(startDate), tz)
       /\ DateOf(t.fecha) <= StartOfDay(DateOf(endDate), tz)}
getTransactionsByDateRange(store, startDate, endDate, tz) ==
    {t \in store :
       /\ t.fecha # NoDay
       /\ DateOf(t.fecha) >= StartOfDay(DateOf(startDate), tz)
       /\ DateOf(t.fecha) <= EndOfDay(DateOf(endDate), tz)}

\* db.js getSummary, the forEach over the records of the range: the totals
\* after the records of rows were added to ing and gas
RECURSIVE SummaryLoop(_, _, _)
SummaryLoop(rows, ing, gas) ==
    IF rows = {}
      THEN [totalIngresos |-> ing, totalGastos |-> gas]
      ELSE LET t == CHOOSE r \in rows : TRUE IN
           IF t.tipo = "ingreso"
             THEN SummaryLoop(rows \ {t}, ing + t.monto, gas)
             ELSE SummaryLoop(rows \ {t}, ing, gas + t.monto)

\* db.js getSummary(startDate, endDate)
getSummaryAll(store, startDate, endDate, tz) ==
    LET rows == store
        tot == SummaryLoop(rows, 0, 0)
    IN  [totalIngresos |-> tot.totalIngresos,
         totalGastos |-> tot.totalGastos,
         balance |-> tot.totalIngresos - tot.totalGastos,
         transacciones |-> Cardinality(rows)]
getSummary(store, startDate, endDate, tz) ==
    LET rows == getTransactionsByDateRange(store, startDate, endDate, tz)
        tot == SummaryLoop(rows, 0, 0)
    IN  [totalIngresos |-> tot.totalIngresos,
         totalGastos |-> tot.totalGastos,
         balance |-> tot.totalIngresos - tot.totalGastos,
         transacciones |-> Cardinality(rows)]

\* db.js getAllTransactions: orderBy('createdAt').reverse().toArray(); the
\* index lists the records by createdAt and, for equal createdAt, by key,
\* and reverse() reads it backwards
RECURSIVE getAllTransactionsForward(_)
getAllTransactionsForward(store) ==
    IF store = {}
      THEN << >>
      ELSE LET t == CHOOSE r \in store : \A u \in store :
                       \/ r.createdAt < u.createdAt
                       \/ r.createdAt = u.createdAt /\ r.localId <= u.localId
           IN  <<t>> \o getAllTransactionsForward(store \ {t})
RECURSIVE getAllTransactions(_)
getAllTransactions(store) ==
    IF store = {}
      THEN << >>
      ELSE LET t == CHOOSE r \in store : \A u \in store :
                       \/ r.createdAt > u.createdAt
                       \/ r.createdAt = u.createdAt /\ r.localId >= u.localId
           IN  <<t>> \o getAllTransactions(store \ {t})

\* settings.js renderSettings: the number shown as "N pendiente(s)",
\* pending.length of the array read at the time of rendering
PendingCount(store) == Cardinality(getPendingTransactions(store))

(* ----------------------------- state ----------------------------------- *)

VARIABLES
    online,        \* navigator.onLine
    apiUrl,        \* localStorage['api_url']
    transactions,  \* the local table db.transactions
    nextLocalId,   \* the table's auto-increment counter (++localId)
    remote,        \* the remote ledger's rows
    now,           \* the clock read by new Date()
    lastSync,      \* the last-sync watermark setting
    pc,            \* where each syncPendingTransactions call stands
    batch,         \* push: the array read by getPendingTransactions
    pushResult,    \* the value pushPendingTransactions returned
    pullResult,    \* the value pullRemoteTransactions returned
    outcome        \* the branch by which the call's latest step ended

vars == <<online, apiUrl, transactions, nextLocalId, remote, now,
          lastSync, pc, batch, pushResult, pullResult, outcome>>

sync_vars == <<pc, batch, pushResult, pullResult, outcome>>

NoResult == [synced |-> 0, pending |-> 0]

Init ==
    /\ online = TRUE
    /\ apiUrl = ""
    /\ transactions = {}
    /\ nextLocalId = 1
    /\ remote = {}
    /\ now = 1
    /\ lastSync = NoTime
    /\ pc = [p \in Procs |-> "idle"]
    /\ batch = [p \in Procs |-> {}]
    /\ pushResult = [p \in Procs |-> NoResult]
    /\ pullResult = [p \in Procs |-> 0]
    /\ outcome = [p \in Procs |-> "none"]

(* ------------------------ results of the calls ------------------------- *)

\* sync.js getApiUrl: the endpoint URL, read from the settings at each call
\* (getApiUrlAtLoad: a value read once when the module is loaded, before
\* any URL was saved)
getApiUrlAtLoad(stored) == ""
getApiUrl(stored) == stored

\* sync.js pushPendingTransactions / pullRemoteTransactions, first lines:
\* the call goes on only when navigator.onLine and an API URL is set
PreconditionOnlineOnly(on, url) == on
Precondition(on, url) == on /\ url # ""

\* sync.js pushPendingTransactions: the branch taken once the POST has ended
\* with resp; a rejected fetch is caught by the catch block
PushBranchNoCatch(resp) ==
    CASE resp = "ok" -> "ok" [] resp = "status" -> "status" [] OTHER -> "thrown"
PushBranch(resp) ==
    CASE resp = "ok" -> "ok" [] resp = "status" -> "status" [] OTHER -> "caught"

\* sync.js pushPendingTransactions: the value returned once the POST has
\* ended with resp, b being the batch sent and store the table at that time
PushReturnBatch(store, b, resp) ==
    IF resp = "ok" THEN [synced |-> Cardinality(b), pending |-> 0]
                   ELSE [synced |-> 0, pending |-> Cardinality(b)]
PushReturn(store, b, resp) ==
    CASE resp = "ok" -> [synced |-> Cardinality(b), pending |-> 0]
      [] resp = "status" -> [synced |-> 0, pending |-> Cardinality(b)]
      [] OTHER -> [synced |-> 0,
                   pending |-> Cardinality(getPendingTransactions(store))]

\* sync.js pushPendingTransactions: the table once the POST has ended with
\* resp: markAsSynced on the batch's keys if response.ok, else no change
PushStoreAlways(store, b, resp) ==
    markAsSynced(store, {t.localId : t \in b})
PushStore(store, b, resp) ==
    IF resp = "ok" THEN markAsSynced(store, {t.localId : t \in b})
                   ELSE store

\* sync.js pullRemoteTransactions, the merge loop over the rows of the
\* response (listed by ascending id): rows without id are skipped, the
\* others are upserted, inserted counts the new ones.  The result is the
\* table, its next key and the counter after the loop.
RECURSIVE PullLoop(_, _, _, _, _)
PullLoop(store, key, ins, rows, at) ==
    IF rows = {}
      THEN [store |-> store, key |-> key, inserted |-> ins]
      ELSE LET t == CHOOSE r \in rows : \A u \in rows : r.id <= u.id
               obj == FromRemote(t, at)
               wasNew == UpsertWasNew(store, obj)
           IN  IF ~HasId(t)
                 THEN PullLoop(store, key, ins, rows \ {t}, at)
                 ELSE PullLoop(UpsertStore(store, key, obj),
                               IF wasNew THEN key + 1 ELSE key,
                               PullCount(ins, wasNew), rows \ {t}, at)

\* sync.js pullRemoteTransactions: the branch taken once the GET has ended
\* with resp; a rejected fetch and an unparsable body are caught
PullBranch(resp) ==
    CASE resp = "ok" -> "ok" [] resp = "status" -> "status" [] OTHER -> "caught"

\* sync.js pullRemoteTransactions: the table, the next key and the value
\* returned once the GET has ended with resp, rows being the ledger's rows
PullReturnMergeAlways(store, key, rows, at, resp) ==
    LET r == PullLoop(store, key, 0, rows, at) IN
    [store |-> r.store, key |-> r.key, pulled |-> r.inserted]
PullReturn(store, key, rows, at, resp) ==
    IF resp = "ok"
      THEN LET r == PullLoop(store, key, 0, rows, at) IN
           [store |-> r.store, key |-> r.key, pulled |-> r.inserted]
      ELSE [store |-> store, key |-> key, pulled |-> 0]

\* sync.js syncPendingTransactions: the record returned to the caller
SyncResult(p) ==
    [synced |-> pushResult[p].synced, pulled |-> pullResult[p],
     pending |-> pushResult[p].pending]

(* ----------------------- the user's handlers --------------------------- *)

\* form.js submit: validation, then addTransaction of the object built from
\* the form (kind, amount, date, attached photo) with a generated id
SubmitForm(tp, m, f, ph) ==
    /\ m > 0
    /\ nextLocalId <= MaxKey
    /\ transactions' =
          addTransaction(transactions, nextLocalId,
                         [id |-> GenerateId(nextLocalId), tipo |-> tp,
                          monto |-> m, fecha |-> f, comprobante |-> ph],
                         now)
    /\ nextLocalId' = nextLocalId + 1
    /\ UNCHANGED <<online, apiUrl, remote, now, lastSync, sync_vars>>

\* home.js confirmDelete: deleteTransaction(localId) of a listed record; no
\* request is sent (DeleteTransactionRemote: a delete that also removes the
\* row of the ledger)
DeleteTransactionRemote(k) ==
    /\ \E t \in transactions : t.localId = k
    /\ transactions' = {t \in transactions : t.localId # k}
    /\ remote' = {r \in remote :
                    \A t \in transactions : t.localId = k => r.id # t.id}
    /\ UNCHANGED <<online, apiUrl, nextLocalId, now, lastSync, sync_vars>>
DeleteTransaction(k) ==
    /\ \E t \in transactions : t.localId = k
    /\ ~deleteTransaction(transactions, k).rejected
    /\ transactions' = deleteTransaction(transactions, k).store
    /\ UNCHANGED <<online, apiUrl, nextLocalId, remote, now, lastSync,
                   sync_vars>>

\* settings.js btn-save-api: setApiUrl(cleanUrl)
SetApiUrl(u) ==
    /\ apiUrl # u
    /\ apiUrl' = u
    /\ UNCHANGED <<online, transactions, nextLocalId, remote, now, lastSync,
                   sync_vars>>

\* settings.js setting-sync click: refused without URL or offline, else
\* calls syncPendingTransactions
ManualSync ==
    /\ pc["manual"] = "idle"
    /\ apiUrl # ""
    /\ online
    /\ pc' = [pc EXCEPT !["manual"] = "push"]
    /\ UNCHANGED <<online, apiUrl, transactions, nextLocalId, remote, now,
                   lastSync, batch, pushResult, pullResult, outcome>>

\* sync.js initSyncListeners, 'online' listener: calls
\* syncPendingTransactions.  The listener is registered once (main.js init)
\* and runs once per event.  At most one call of the listener is followed
\* at a time: the host comes back online when the previous one has ended.
OnlineEventNoSync ==
    /\ ~online
    /\ online' = TRUE
    /\ UNCHANGED <<apiUrl, transactions, nextLocalId, remote, now, lastSync,
                   sync_vars>>
OnlineEvent ==
    /\ ~online
    /\ pc["online"] = "idle"
    /\ online' = TRUE
    /\ pc' = [pc EXCEPT !["online"] = "push"]
    /\ UNCHANGED <<apiUrl, transactions, nextLocalId, remote, now, lastSync,
                   batch, pushResult, pullResult, outcome>>

\* sync.js initSyncListeners, 'offline' listener: a toast only
OfflineEventSync ==
    /\ online
    /\ online' = FALSE
    /\ pc["online"] = "idle"
    /\ pc' = [pc EXCEPT !["online"] = "push"]
    /\ UNCHANGED <<apiUrl, transactions, nextLocalId, remote, now, lastSync,
                   batch, pushResult, pullResult, outcome>>
OfflineEvent ==
    /\ online
    /\ online' = FALSE
    /\ UNCHANGED <<apiUrl, transactions, nextLocalId, remote, now, lastSync,
                   sync_vars>>

(* ------------------------------ push ----------------------------------- *)

\* pushPendingTransactions up to the fetch: the precondition, the read of
\* the pending records, the early return on an empty batch.  The call is
\* awaited by syncPendingTransactions, so the pull starts only when the push
\* has returned (PushStartNoAwait: the pull started without the await).
PushStartNoAwait(p) ==
    /\ pc[p] = "push"
    /\ pc' = [pc EXCEPT ![p] = "pull_fetch"]
    /\ batch' = [batch EXCEPT ![p] = getPendingTransactions(transactions)]
    /\ outcome' = [outcome EXCEPT ![p] = "sent"]
    /\ UNCHANGED <<online, apiUrl, transactions, nextLocalId, remote, now,
                   lastSync, pushResult, pullResult>>
PushStart(p) ==
    /\ pc[p] = "push"
    /\ IF ~Precondition(online, getApiUrl(apiUrl))
            \/ getPendingTransactions(transactions) = {}
         THEN /\ pc' = [pc EXCEPT ![p] = "pull"]
              /\ pushResult' = [pushResult EXCEPT ![p] = NoResult]
              /\ outcome' = [outcome EXCEPT ![p] =
                               IF Precondition(online, getApiUrl(apiUrl))
                                 THEN "empty"
                                 ELSE "skipped"]
              /\ UNCHANGED batch
         ELSE /\ pc' = [pc EXCEPT ![p] = "push_fetch"]
              /\ batch' = [batch EXCEPT ![p] =
                             getPendingTransactions(transactions)]
              /\ outcome' = [outcome EXCEPT ![p] = "sent"]
              /\ UNCHANGED pushResult
    /\ UNCHANGED <<online, apiUrl, transactions, nextLocalId, remote, now,
                   lastSync, pullResult>>

\* the POST ends.  ok: stored and acknowledged; status: refused with a
\* non-2xx status; reject: the request never arrived; lost: stored, but the
\* response never arrived (fetch rejects).  A response needs connectivity.
PushResponse(p, resp) ==
    /\ pc[p] = "push_fetch"
    /\ resp \in {"ok", "status"} => online
    /\ remote' = IF resp \in {"ok", "lost"}
                   THEN RemoteStore(remote, {Serialize(t) : t \in batch[p]})
                   ELSE remote
    /\ transactions' = PushStore(transactions, batch[p], resp)
    /\ pushResult' = [pushResult EXCEPT ![p] =
                        PushReturn(transactions, batch[p], resp)]
    /\ outcome' = [outcome EXCEPT ![p] = PushBranch(resp)]
    /\ pc' = [pc EXCEPT ![p] =
                IF PushBranch(resp) = "thrown" THEN "threw" ELSE "pull"]
    /\ batch' = [batch EXCEPT ![p] = {}]
    /\ UNCHANGED <<online, apiUrl, nextLocalId, now, lastSync, pullResult>>

(* ------------------------------ pull ----------------------------------- *)

\* pullRemoteTransactions up to the fetch
PullStart(p) ==
    /\ pc[p] = "pull"
    /\ IF ~Precondition(online, getApiUrl(apiUrl))
         THEN /\ pc' = [pc EXCEPT ![p] = "done"]
              /\ pullResult' = [pullResult EXCEPT ![p] = 0]
              /\ outcome' = [outcome EXCEPT ![p] = "skipped"]
         ELSE /\ pc' = [pc EXCEPT ![p] = "pull_fetch"]
              /\ outcome' = [outcome EXCEPT ![p] = "sent"]
              /\ UNCHANGED pullResult
    /\ UNCHANGED <<online, apiUrl, transactions, nextLocalId, remote, now,
                   lastSync, batch, pushResult>>

\* the GET ends.  ok: the rows of the ledger; status: non-2xx; reject: no
\* response; malformed: a 2xx whose body response.json() cannot parse.  On
\* ok the rows are merged, the watermark is set and {pulled: inserted} is
\* returned.  The rows have distinct ids and each upsert is one transaction
\* of the table, so the loop is taken as one step.  The merge needs a free
\* key for every row it inserts.
PullResponse(p, resp) ==
    /\ pc[p] = "pull_fetch"
    /\ resp \in {"ok", "status", "malformed"} => online
    /\ LET r == PullReturn(transactions, nextLocalId,
                            PullRows(remote, lastSync), now, resp) IN
         /\ r.key <= MaxKey + 1
         /\ transactions' = r.store
         /\ nextLocalId' = r.key
         /\ pullResult' = [pullResult EXCEPT ![p] = r.pulled]
    /\ lastSync' = IF resp = "ok" THEN now ELSE lastSync
    /\ outcome' = [outcome EXCEPT ![p] = PullBranch(resp)]
    /\ pc' = [pc EXCEPT ![p] =
                IF PullBranch(resp) = "thrown" THEN "threw" ELSE "done"]
    /\ UNCHANGED <<online, apiUrl, remote, now, batch, pushResult>>

\* the caller has the result of syncPendingTransactions; its handler shows
\* it and ends, whatever the result (SyncReturnRetry: a caller that calls
\* again when records are left pending)
SyncReturnRetry(p) ==
    /\ pc[p] = "done"
    /\ pc' = [pc EXCEPT ![p] =
                IF pushResult[p].pending > 0 THEN "push" ELSE "idle"]
    /\ pushResult' = [pushResult EXCEPT ![p] = NoResult]
    /\ pullResult' = [pullResult EXCEPT ![p] = 0]
    /\ outcome' = [outcome EXCEPT ![p] = "none"]
    /\ UNCHANGED <<online, apiUrl, transactions, nextLocalId, remote, now,
                   lastSync, batch>>
SyncReturn(p) ==
    /\ pc[p] = "done"
    /\ pc' = [pc EXCEPT ![p] = "idle"]
    /\ pushResult' = [pushResult EXCEPT ![p] = NoResult]
    /\ pullResult' = [pullResult EXCEPT ![p] = 0]
    /\ outcome' = [outcome EXCEPT ![p] = "none"]
    /\ UNCHANGED <<online, apiUrl, transactions, nextLocalId, remote, now,
                   lastSync, batch>>

(* --------------------------- environment ------------------------------- *)

\* another device pushes a record of its own to the ledger
OtherDevicePush(i, m) ==
    /\ \A r \in remote : r.id # i
    /\ remote' = remote \cup {[id |-> i, tipo |-> "gasto", monto |-> m,
                               fecha |-> now, createdAt |-> now]}
    /\ UNCHANGED <<online, apiUrl, transactions, nextLocalId, now, lastSync,
                   sync_vars>>

\* a row is typed into the sheet by hand: its id cell may be empty, its
\* fecha and createdAt cells are empty
RemoteAdd(i, m) ==
    /\ \A r \in remote : r.id # i
    /\ remote' = remote \cup {[id |-> i, tipo |-> "ingreso", monto |-> m,
                               fecha |-> NoDay, createdAt |-> NoTime]}
    /\ UNCHANGED <<online, apiUrl, transactions, nextLocalId, now, lastSync,
                   sync_vars>>

\* the amount of a row of the sheet is changed by hand
RemoteEdit(r, m) ==
    /\ r \in remote
    /\ r.monto # m
    /\ remote' = (remote \ {r}) \cup {[r EXCEPT !.monto = m]}
    /\ UNCHANGED <<online, apiUrl, transactions, nextLocalId, now, lastSync,
                   sync_vars>>

\* time passes
Tick ==
    /\ now < MaxClock
    /\ now' = now + 1
    /\ UNCHANGED <<online, apiUrl, transactions, nextLocalId, remote,
                   lastSync, sync_vars>>

(* ------------------------- specifications ------------------------------ *)

\* The application with both callers of syncPendingTransactions, which may
\* overlap, and other devices pushing to the ledger.  Records are made
\* without photo (the photo is read by no step of a sync; SpecClock has it).
Next ==
    \/ \E m \in FormMontos : SubmitForm("gasto", m, now, "")
    \/ \E k \in 1..MaxKey : DeleteTransaction(k)
    \/ \E u \in Urls : SetApiUrl(u)
    \/ ManualSync
    \/ OnlineEvent
    \/ OfflineEvent
    \/ \E p \in Procs : PushStart(p)
    \/ \E p \in Procs, resp \in {"ok", "status", "reject", "lost"} :
          PushResponse(p, resp)
    \/ \E p \in Procs : PullStart(p)
    \/ \E p \in Procs, resp \in {"ok", "status", "reject", "malformed"} :
          PullResponse(p, resp)
    \/ \E p \in Procs : SyncReturn(p)
    \/ \E i \in OtherIds, m \in RemoteMontos : OtherDevicePush(i, m)

Spec == Init /\ [][Next]_vars

\* The application synchronising on every return of connectivity (the user
\* never presses "Sincronizar ahora"), against a ledger that other devices
\* push to and that is also edited by hand.
NextLedger ==
    \/ \E m \in FormMontos : SubmitForm("gasto", m, now, "")
    \/ \E k \in 1..MaxKey : DeleteTransaction(k)
    \/ \E u \in Urls : SetApiUrl(u)
    \/ OnlineEvent
    \/ OfflineEvent
    \/ \E p \in Procs : PushStart(p)
    \/ \E p \in Procs, resp \in {"ok", "status", "reject", "lost"} :
          PushResponse(p, resp)
    \/ \E p \in Procs : PullStart(p)
    \/ \E p \in Procs, resp \in {"ok", "status", "reject", "malformed"} :
          PullResponse(p, resp)
    \/ \E p \in Procs : SyncReturn(p)
    \/ \E i \in OtherIds, m \in RemoteMontos : OtherDevicePush(i, m)
    \/ \E i \in OtherIds \cup HandIds \cup {NoId}, m \in HandMontos :
          RemoteAdd(i, m)
    \/ \E r \in remote, m \in RemoteMontos : RemoteEdit(r, m)

SpecLedger == Init /\ [][NextLedger]_vars

\* The same, with time passing, photos attached in the form, and without
\* edits of amounts.
NextClock ==
    \/ \E m \in FormMontos, ph \in Photos : SubmitForm("gasto", m, now, ph)
    \/ \E k \in 1..MaxKey : DeleteTransaction(k)
    \/ \E u \in Urls : SetApiUrl(u)
    \/ OnlineEvent
    \/ OfflineEvent
    \/ \E p \in Procs : PushStart(p)
    \/ \E p \in Procs, resp \in {"ok", "status", "reject", "lost"} :
          PushResponse(p, resp)
    \/ \E p \in Procs : PullStart(p)
    \/ \E p \in Procs, resp \in {"ok", "status", "reject", "malformed"} :
          PullResponse(p, resp)
    \/ \E p \in Procs : SyncReturn(p)
    \/ \E i \in OtherIds, m \in RemoteMontos : RemoteAdd(i, m)
    \/ Tick

SpecClock == Init /\ [][NextClock]_vars

\* The application once an endpoint is configured for good (the URL is set
\* and never cleared), with its own ledger and records without photo.
\* Every step of a call that is not waiting for the network is eventually
\* taken and every request
\* eventually ends (the JavaScript event loop and fetch); the user presses
\* "Sincronizar ahora" again whenever that is possible, and the endpoint
\* does not refuse or lose every POST: of the POSTs sent with connectivity,
\* one is eventually acknowledged.
NextLive ==
    \/ \E m \in FormMontos : SubmitForm("gasto", m, now, "")
    \/ \E k \in 1..MaxKey : DeleteTransaction(k)
    \/ \E u \in Urls \ {""} : SetApiUrl(u)
    \/ ManualSync
    \/ OnlineEvent
    \/ OfflineEvent
    \/ \E p \in Procs : PushStart(p)
    \/ \E p \in Procs, resp \in {"ok", "status", "reject", "lost"} :
          PushResponse(p, resp)
    \/ \E p \in Procs : PullStart(p)
    \/ \E p \in Procs, resp \in {"ok", "status", "reject", "malformed"} :
          PullResponse(p, resp)
    \/ \E p \in Procs : SyncReturn(p)

Fairness ==
    /\ \A p \in Procs :
          /\ WF_vars(PushStart(p))
          /\ WF_vars(PullStart(p))
          /\ WF_vars(SyncReturn(p))
          /\ WF_vars(\E resp \in {"ok", "status", "reject", "lost"} :
                        PushResponse(p, resp))
          /\ WF_vars(\E resp \in {"ok", "status", "reject", "malformed"} :
                        PullResponse(p, resp))
          /\ SF_vars(PushResponse(p, "ok"))
    /\ WF_vars(ManualSync)

SpecLive == Init /\ [][NextLive]_vars /\ Fairness

\* The application with records of both kinds and of any day, a ledger
\* with rows typed by hand, and time passing; requests succeed or are
\* rejected.
NextReports ==
    \/ \E tp \in Tipos, m \in ReportMontos, f \in Days :
          SubmitForm(tp, m, f, "")
    \/ \E k \in 1..MaxKey : DeleteTransaction(k)
    \/ \E u \in Urls : SetApiUrl(u)
    \/ OnlineEvent
    \/ OfflineEvent
    \/ \E p \in Procs : PushStart(p)
    \/ \E p \in Procs, resp \in {"ok", "reject"} : PushResponse(p, resp)
    \/ \E p \in Procs : PullStart(p)
    \/ \E p \in Procs, resp \in {"ok", "reject"} : PullResponse(p, resp)
    \/ \E p \in Procs : SyncReturn(p)
    \/ \E i \in OtherIds, m \in RemoteMontos : RemoteAdd(i, m)
    \/ Tick

SpecReports == Init /\ [][NextReports]_vars

(* ------------------------------ claims --------------------------------- *)

\* keys of the records of a table that are synced
SyncedKeys(store) == {t.localId : t \in {u \in store : u.syncStatus = "synced"}}

\* ids of the rows of the ledger
RemoteIds(rem) == {r.id : r \in rem}

\* C1 (no loss): when the POST of a push is acknowledged, every record of the
\* batch (all records pending when the sync started) is in the ledger and,
\* unless deleted meanwhile, synced in the table; if every pending record
\* was in the batch, none is pending afterwards.  No later step turns a
\* synced record back to pending or removes a row from the ledger.
NoLoss ==
    [][/\ \A p \in Procs :
            (pc[p] = "push_fetch" /\ outcome'[p] = "ok") =>
              /\ \A t \in batch[p] : t.id \in RemoteIds(remote')
              /\ \A t \in batch[p] : \A u \in transactions' :
                    u.localId = t.localId => u.syncStatus = "synced"
              /\ getPendingTransactions(transactions) \subseteq batch[p]
                    => getPendingTransactions(transactions') = {}
       /\ \A t \in transactions : \A u \in transactions' :
            (t.syncStatus = "synced" /\ u.localId = t.localId)
              => u.syncStatus = "synced"
       /\ RemoteIds(remote) \subseteq RemoteIds(remote')]_vars

\* a push of one record was acknowledged: the record is synced and in the
\* ledger, and nothing is pending
WitNoLoss ==
    \E p \in Procs :
        /\ pc[p] = "pull" /\ outcome[p] = "ok" /\ pushResult[p].synced = 1
        /\ \E t \in transactions :
              t.syncStatus = "synced" /\ t.id \in RemoteIds(remote)
        /\ getPendingTransactions(transactions) = {}

\* C2 (push atomicity): a push whose POST is rejected or answered with a
\* non-success status changes no record of the table.
PushAtomicity ==
    [][\A p \in Procs :
         (pc[p] = "push_fetch" /\ outcome'[p] \in {"status", "caught"})
           => transactions' = transactions]_vars

\* a push failed and its records are still pending
WitPushAtomicity ==
    \E p \in Procs :
        /\ pc[p] = "pull" /\ outcome[p] = "caught"
        /\ pushResult[p].pending >= 1
        /\ \E t \in transactions : t.syncStatus = "pending"

\* C3 (pending wins): a successful pull leaves every pending record whose
\* id is among the rows pulled exactly as it was, and counts none of those
\* rows in pulled.
PendingWins ==
    [][\A p \in Procs :
         (pc[p] = "pull_fetch" /\ outcome'[p] = "ok") =>
           /\ \A t \in getPendingTransactions(transactions) :
                 t.id \in RemoteIds(remote) => t \in transactions'
           /\ pullResult'[p] <=
                 Cardinality({r \in remote :
                    /\ r.id # NoId
                    /\ \A t \in getPendingTransactions(transactions) :
                          t.id # r.id})]_vars

\* a pull has ended with pulled = 0 while a pending record and the row of
\* the same id carry different amounts
WitPendingWins ==
    \E p \in Procs :
        /\ pc[p] = "done" /\ outcome[p] = "ok" /\ pullResult[p] = 0
        /\ \E t \in getPendingTransactions(transactions) :
              \E r \in remote : r.id = t.id /\ r.monto # t.monto

\* C4 (no duplication): no two records of the table have the same id.
NoDuplication ==
    \A t \in transactions : \A u \in transactions : t.id = u.id => t = u

\* two pulls have each inserted a row and every key was used by them, so the
\* same row of another device was pulled and inserted twice (it was deleted
\* in between); the table holds it once
WitNoDuplication ==
    /\ \A p \in Procs : pc[p] = "done" /\ outcome[p] = "ok"
                          /\ pullResult[p] = 1
    /\ nextLocalId = 3
    /\ Cardinality(transactions) = 1
    /\ \A t \in transactions : t.id \in OtherIds

\* syncPendingTransactions run at time at with connectivity, a URL and
\* both requests answered with success: the table, the next key, the
\* ledger and the record returned
SyncOnce(store, key, rem, at) ==
    LET b == getPendingTransactions(store)
        rem1 == IF b = {} THEN rem
                          ELSE RemoteStore(rem, {Serialize(t) : t \in b})
        st1 == IF b = {} THEN store ELSE PushStore(store, b, "ok")
        pr == IF b = {} THEN NoResult ELSE PushReturn(store, b, "ok")
        pl == PullReturn(st1, key, rem1, at, "ok")
    IN  [store |-> pl.store, key |-> pl.key, remote |-> rem1,
         result |-> [synced |-> pr.synced, pulled |-> pl.pulled,
                     pending |-> pr.pending]]

\* C5 (idempotent pull): from any state in which a pull can run (online, a
\* URL set), a successful pull of the ledger's
\* rows followed by a second successful pull of the same rows, at the same
\* or a later time: the second returns pulled = 0 and leaves the table as
\* the first left it.
IdempotentPull ==
    Precondition(online, apiUrl) =>
    \A at2 \in now..MaxClock :
        LET r1 == PullReturn(transactions, nextLocalId, remote, now, "ok")
            r2 == PullReturn(r1.store, r1.key, remote, at2, "ok")
        IN  r2.pulled = 0 /\ r2.store = r1.store

\* C6 (idempotent combined sync): from any state in which a sync can run
\* (online, a URL set), a combined sync whose
\* requests both succeed, followed by a second one at the same or a later
\* time with no change in between: the second returns synced = 0 and
\* pulled = 0 and leaves the table as the first left it.
IdempotentSync ==
    Precondition(online, apiUrl) =>
    \A at2 \in now..MaxClock :
        LET s1 == SyncOnce(transactions, nextLocalId, remote, now)
            s2 == SyncOnce(s1.store, s1.key, s1.remote, at2)
        IN  /\ s2.result.synced = 0
            /\ s2.result.pulled = 0
            /\ s2.store = s1.store

\* C7 (one sync at a time): at most one call of syncPendingTransactions is
\* between its start and the end of its pull.
AtMostOneSync ==
    Cardinality({p \in Procs :
                   pc[p] \in {"push", "push_fetch", "pull", "pull_fetch"}})
      <= 1

\* the part of C8 about the call itself: a push that starts offline or
\* without a URL sends nothing, changes neither table nor ledger and
\* returns {synced: 0, pending: 0}
PushSkipped ==
    \A p \in Procs :
        (pc[p] = "push" /\ pc'[p] # "push" /\ (~online \/ apiUrl = "")) =>
          /\ pc'[p] # "push_fetch"
          /\ transactions' = transactions
          /\ remote' = remote
          /\ pushResult'[p] = [synced |-> 0, pending |-> 0]

\* C8 as amended (push precondition): PushSkipped, and a step taken while
\* no URL is set and no request is in flight makes no record synced.
PushPrecondition ==
    [][/\ PushSkipped
       /\ (apiUrl = "" /\ \A p \in Procs :
                              pc[p] \notin {"push_fetch", "pull_fetch"})
            => SyncedKeys(transactions') \subseteq SyncedKeys(transactions)
      ]_vars

\* C8 as stated: PushSkipped, and no step taken while no URL is set makes a
\* record synced.
PushPreconditionAlways ==
    [][/\ PushSkipped
       /\ (apiUrl = "" /\ apiUrl' = "")
            => SyncedKeys(transactions') \subseteq SyncedKeys(transactions)
      ]_vars

\* a push was skipped by the precondition while records are pending
WitPushPrecondition ==
    \E p \in Procs :
        /\ pc[p] = "pull" /\ outcome[p] = "skipped"
        /\ ~online \/ apiUrl = ""
        /\ Cardinality(getPendingTransactions(transactions)) = 2
        /\ pushResult[p] = [synced |-> 0, pending |-> 0]

\* C9 as amended (push failure result): a non-success status returns
\* synced = 0 and pending = the size of the batch; a rejected request
\* returns synced = 0 and pending = the number of records pending when the
\* rejection is handled, which is the size of the batch if the pending
\* records are still those of the batch.
PushFailureResult ==
    [][\A p \in Procs : pc[p] = "push_fetch" =>
         /\ outcome'[p] = "status" =>
               pushResult'[p] =
                 [synced |-> 0, pending |-> Cardinality(batch[p])]
         /\ outcome'[p] = "caught" =>
               /\ pushResult'[p] =
                    [synced |-> 0,
                     pending |-> Cardinality(
                                   getPendingTransactions(transactions))]
               /\ getPendingTransactions(transactions) = batch[p]
                    => pushResult'[p].pending = Cardinality(batch[p])]_vars

\* C9 as stated: every failed push returns synced = 0 and pending = the size
\* of the batch.
PushFailureBatchSize ==
    [][\A p \in Procs :
         (pc[p] = "push_fetch" /\ outcome'[p] \in {"status", "caught"})
           => pushResult'[p] =
                [synced |-> 0, pending |-> Cardinality(batch[p])]]_vars

\* a push was rejected and returned pending = 0, though its batch held at
\* least one record
WitPushFailureResult ==
    \E p \in Procs :
        pc[p] = "pull" /\ outcome[p] = "caught" /\ pushResult[p].pending = 0

\* C10 (never throws): no call of syncPendingTransactions ends by an
\* exception, and a call that has ended holds a record of three counts.
NeverThrows ==
    \A p \in Procs :
        /\ pc[p] # "threw"
        /\ pc[p] = "done" =>
              SyncResult(p) \in [synced : Nat, pulled : Nat, pending : Nat]

\* a call has ended after a failed push of at least one record and a pull
\* whose request was rejected or whose body was unparsable
WitNeverThrows ==
    \E p \in Procs :
        /\ pc[p] = "done" /\ outcome[p] = "caught"
        /\ SyncResult(p).synced = 0 /\ SyncResult(p).pending >= 1

\* C11 (push before pull): a call issues its GET only from the point after
\* its push phase, and it reaches that point only when its push returned
\* without sending (table unchanged) or when the response of its POST was
\* handled (on success the records of the batch still in the table are
\* synced); while its pull runs none of its own POSTs is in flight.
PushBeforePull ==
    [][\A p \in Procs :
         /\ (pc[p] # "pull_fetch" /\ pc'[p] = "pull_fetch") => pc[p] = "pull"
         /\ (pc[p] # "pull" /\ pc'[p] = "pull") =>
               \/ /\ pc[p] = "push"
                  /\ outcome'[p] \in {"skipped", "empty"}
                  /\ transactions' = transactions
               \/ /\ pc[p] = "push_fetch"
                  /\ outcome'[p] \in {"ok", "status", "caught"}
                  /\ outcome'[p] = "ok" =>
                        \A t \in batch[p] : \A u \in transactions' :
                            u.localId = t.localId => u.syncStatus = "synced"
         /\ pc'[p] \in {"pull", "pull_fetch"} => batch'[p] = {}]_vars

\* the GET of a call is in flight after its POST was acknowledged for two
\* records, both synced
WitPushBeforePull ==
    \E p \in Procs :
        /\ pc[p] = "pull_fetch" /\ pushResult[p].synced = 2
        /\ Cardinality(SyncedKeys(transactions)) = 2

\* C13 (local writes are independent of the remote): in every state, also
\* offline, without a URL or with a sync in flight, the form's submit can
\* add a record, and addTransaction of any input, also one that carries a
\* syncStatus or a createdAt of its own, adds exactly one record, stored
\* with syncStatus pending and createdAt the current time; the step of a
\* submit adds such a record under the next key and changes nothing else
\* of the table.
LocalWrite ==
    /\ [](/\ nextLocalId <= MaxKey =>
                ENABLED SubmitForm("gasto", 100, now, "img")
          /\ \A st \in {"pending", "synced"}, c \in NoTime..MaxClock :
               LET in == [id |-> GenerateId(nextLocalId), monto |-> 100,
                          comprobante |-> "", syncStatus |-> st,
                          createdAt |-> c]
                   after == addTransaction(transactions, nextLocalId, in, now)
               IN  /\ transactions \subseteq after
                   /\ \E t \in after :
                         /\ after = transactions \cup {t}
                         /\ t.localId = nextLocalId /\ t.id = in.id
                         /\ t.syncStatus = "pending" /\ t.createdAt = now)
    /\ [][(nextLocalId' # nextLocalId /\ pc' = pc) =>
            \E t \in transactions' :
                /\ transactions' = transactions \cup {t}
                /\ t \notin transactions
                /\ t.localId = nextLocalId
                /\ t.syncStatus = "pending" /\ t.createdAt = now
                /\ remote' = remote]_vars

\* offline and without a URL, a record created at the current time, after
\* the clock has advanced, is stored as pending
WitLocalWrite ==
    /\ ~online /\ apiUrl = "" /\ now = MaxClock
    /\ \E t \in transactions :
          t.syncStatus = "pending" /\ t.createdAt = now /\ t.monto = 100

\* the fields of a record that exist only in the local table
LocalOnlyFields == {"localId", "syncStatus", "comprobante"}

\* C19 (push body): while a POST is in flight its body holds, for every record
\* of the batch, an entry that has none of the fields localId, syncStatus
\* and comprobante and whose id is the record's id; the batch is made of
\* records that were pending when they were read.
PushBodyFields ==
    \A p \in Procs : pc[p] = "push_fetch" =>
        /\ batch[p] # {}
        /\ \A t \in batch[p] :
              /\ t.syncStatus = "pending"
              /\ DOMAIN Serialize(t) \cap LocalOnlyFields = {}
              /\ Serialize(t).id = t.id

\* a POST is in flight for two records, one of them with a photo attached
WitPushBodyFields ==
    \E p \in Procs :
        /\ pc[p] = "push_fetch" /\ Cardinality(batch[p]) = 2
        /\ \E t \in batch[p] : t.comprobante = "img"

\* the rows of a response that carry an id no record of the table has
NewRows(store, rows) ==
    {r \in rows : r.id # NoId /\ \A t \in store : t.id # r.id}

\* C14 (pull insert and count): a successful pull adds, for every row with a
\* non-empty id that no record of the table has, one record with that id,
\* the row's amount and syncStatus synced, and returns pulled = the number
\* of those rows; the table grows by exactly that many records.
PullInsertCount ==
    [][\A p \in Procs :
         (pc[p] = "pull_fetch" /\ outcome'[p] = "ok") =>
           /\ pullResult'[p] = Cardinality(NewRows(transactions, remote))
           /\ \A r \in NewRows(transactions, remote) :
                 \E t \in transactions' \ transactions :
                     /\ t.id = r.id /\ t.monto = r.monto
                     /\ t.syncStatus = "synced"
           /\ Cardinality(transactions') =
                 Cardinality(transactions) + pullResult'[p]]_vars

\* a pull into an empty table has returned pulled = 2: both keys of the table
\* were given by it, and the two rows are listed as synced records
WitPullInsertCount ==
    \E p \in Procs :
        /\ pc[p] = "done" /\ outcome[p] = "ok" /\ pullResult[p] = 2
        /\ {t.localId : t \in transactions} = {1, 2}
        /\ \A t \in transactions : t.syncStatus = "synced"
        /\ {t.id : t \in transactions} = OtherIds \cup HandIds

\* C15 (pull update of a synced record): a successful pull leaves every
\* synced record whose id is among the rows under its key, still synced,
\* with the fields of the object built from the row; the record is not
\* counted in pulled and the number of records changes only by the records
\* inserted.
PullUpdateSynced ==
    [][\A p \in Procs :
         (pc[p] = "pull_fetch" /\ outcome'[p] = "ok") =>
           /\ \A t \in transactions : \A r \in remote :
                 (t.syncStatus = "synced" /\ r.id = t.id) =>
                    \E u \in transactions' :
                        /\ u.localId = t.localId /\ u.id = t.id
                        /\ u.syncStatus = "synced"
                        /\ u.monto = FromRemote(r, now).monto
                        /\ u.createdAt = FromRemote(r, now).createdAt
           /\ pullResult'[p] <=
                 Cardinality({r \in remote : \A t \in transactions :
                                t.syncStatus = "synced" => t.id # r.id})
           /\ Cardinality({t \in transactions' : t.id \in
                             {u.id : u \in transactions}})
                = Cardinality(transactions)]_vars

\* a record added in the form with amount 100 and pushed is synced with the
\* amount 200 that its row was given by hand, after a pull that counted
\* nothing
WitPullUpdateSynced ==
    \E p \in Procs :
        /\ pc[p] = "done" /\ outcome[p] = "ok" /\ pullResult[p] = 0
        /\ \E t \in transactions :
              /\ t.id \in 1..MaxKey /\ t.syncStatus = "synced"
              /\ t.monto = 200

\* C16 (one sync per transition to online): a step that takes the host from
\* offline to online starts the listener's call of syncPendingTransactions,
\* and only that call; the listener's call starts in no other step, so none
\* starts while the host stays online.
OnlineOnce ==
    [][/\ (~online /\ online') =>
             /\ pc["online"] = "idle" /\ pc'["online"] = "push"
             /\ \A p \in Procs \ {"online"} : pc'[p] = pc[p]
       /\ (pc["online"] = "idle" /\ pc'["online"] # "idle") =>
             (~online /\ online' /\ pc'["online"] = "push")]_vars

\* the host is back online with pending records and a URL and the listener's
\* call has just started, after an earlier sync made a record synced
WitOnlineOnce ==
    /\ online /\ apiUrl # "" /\ pc["online"] = "push"
    /\ getPendingTransactions(transactions) # {}
    /\ SyncedKeys(transactions) # {}

\* C17 (no automatic retry): a request is issued only by a call of
\* syncPendingTransactions, which issues at most one POST and then at most
\* one GET; a call that has ended, failed or not, is followed by no step
\* of its caller except the end of the handler, and a new call starts only
\* by a trigger: the listener's on a transition to online, the manual one
\* by the click, online and with a URL.
NoRetry ==
    [][\A p \in Procs :
         /\ (pc[p] # "push_fetch" /\ pc'[p] = "push_fetch") => pc[p] = "push"
         /\ (pc[p] # "pull_fetch" /\ pc'[p] = "pull_fetch") => pc[p] = "pull"
         /\ (pc[p] # "pull" /\ pc'[p] = "pull") =>
               pc[p] \in {"push", "push_fetch"}
         /\ pc[p] = "pull_fetch" => pc'[p] \in {"pull_fetch", "done"}
         /\ pc[p] = "done" => pc'[p] \in {"done", "idle"}
         /\ (pc[p] # "push" /\ pc'[p] = "push") =>
               /\ pc[p] = "idle"
               /\ p = "online" => (~online /\ online')
               /\ p = "manual" => (online /\ apiUrl # "")]_vars

\* online and with a URL, a call has ended whose POST failed and left two
\* records pending, and whose GET failed as well
WitNoRetry ==
    \E p \in Procs :
        /\ online /\ apiUrl # ""
        /\ pc[p] = "done" /\ outcome[p] \in {"status", "caught"}
        /\ pushResult[p] = [synced |-> 0, pending |-> 2]

\* C18 (going offline): the step that takes the host from online to offline
\* changes no record of the table, no setting (URL, watermark) and no row
\* of the ledger, and moves no call of syncPendingTransactions, so it
\* issues no request.
OfflineNoData ==
    [][(online /\ ~online') =>
          /\ transactions' = transactions
          /\ nextLocalId' = nextLocalId
          /\ apiUrl' = apiUrl
          /\ lastSync' = lastSync
          /\ remote' = remote
          /\ pc' = pc /\ batch' = batch]_vars

\* the host is offline with a URL set, a pending and a synced record, a row
\* in the ledger and a POST in flight
WitOfflineNoData ==
    /\ ~online /\ apiUrl # ""
    /\ getPendingTransactions(transactions) # {}
    /\ SyncedKeys(transactions) # {}
    /\ remote # {}
    /\ \E p \in Procs : pc[p] = "push_fetch"

\* C20 (deletion is local-only): a step that removes a record from the table
\* leaves the ledger unchanged, and no step removes from the ledger the row
\* of an id that no record of the table has (a row whose record was
\* deleted, among others): the row stays as it is.
DeleteLocalOnly ==
    [][/\ (\E t \in transactions : \A u \in transactions' :
               u.localId # t.localId) => remote' = remote
       /\ \A r \in remote :
             (\A t \in transactions : t.id # r.id) => r \in remote']_vars

\* a record made in the form was pushed and then deleted: its row is in the
\* ledger, the table is empty, and a later call has ended
WitDeleteLocalOnly ==
    /\ transactions = {}
    /\ \E r \in remote : r.id \in 1..MaxKey
    /\ \E p \in Procs : pc[p] = "done" /\ outcome[p] \in {"status", "caught"}
                          /\ pushResult[p] = NoResult

\* the record under key k is pending
IsPending(k) ==
    \E t \in transactions : t.localId = k /\ t.syncStatus = "pending"

\* the record under key k is synced and its row is in the ledger, or it was
\* deleted
Converged(k) ==
    \/ \A t \in transactions : t.localId # k
    \/ \E t \in transactions :
          /\ t.localId = k /\ t.syncStatus = "synced"
          /\ t.id \in RemoteIds(remote)

\* C12 (eventual convergence): if connectivity eventually stays available,
\* then, with an endpoint configured, triggers after every attempt and a POST
\* eventually acknowledged (SpecLive), every pending record is eventually
\* synced with its row in the ledger, unless it is deleted.
Convergence ==
    <>[]online =>
       \A k \in 1..MaxKey : (IsPending(k) /\ apiUrl # "") ~> Converged(k)

\* both records made in the form are synced and in the ledger, while the
\* listener's call still holds the result of a failed push of both
WitConvergence ==
    /\ \A k \in 1..MaxKey :
          \E t \in transactions :
              /\ t.localId = k /\ t.id = GenerateId(k)
              /\ t.syncStatus = "synced" /\ t.id \in RemoteIds(remote)
    /\ pushResult["online"] = [synced |-> 0, pending |-> 2]

\* C21 (deletion is idempotent): in every state and for every key, also one
\* that is not in the table, deleteTransaction is not rejected; for a key
\* that is not in the table it leaves the table as it is, and deleting a key
\* again after it was deleted gives the table of the first deletion.
DeleteIdempotent ==
    \A k \in 1..(MaxKey + 1) :
        LET once == deleteTransaction(transactions, k)
            twice == deleteTransaction(once.store, k)
        IN  /\ ~once.rejected /\ ~twice.rejected
            /\ twice.store = once.store
            /\ (\A t \in transactions : t.localId # k)
                  => once.store = transactions
            /\ \A t \in once.store : t.localId # k

\* the record under key 1 was deleted and the record under key 2 is in the
\* table: deleting key 1 again is a deletion of a key that is not there
WitDeleteIdempotent ==
    /\ nextLocalId = 3
    /\ {t.localId : t \in transactions} = {2}

\* C22 (markAsSynced): in every state and for every set of keys, also keys
\* that are not in the table, markAsSynced keeps the keys of the table (it
\* adds and removes no record), gives syncStatus synced to the records whose
\* key is in the set and leaves every other record, and every other field
\* of the records it marks, as they were.
MarkSyncedFrame ==
    \A keys \in SUBSET (1..(MaxKey + 1)) :
        LET after == markAsSynced(transactions, keys) IN
          /\ {u.localId : u \in after} = {t.localId : t \in transactions}
          /\ Cardinality(after) = Cardinality(transactions)
          /\ \A t \in transactions :
                IF t.localId \in keys
                  THEN [t EXCEPT !.syncStatus = "synced"] \in after
                  ELSE t \in after

\* a push of one record was acknowledged while a second record, added during
\* the request, stays pending: markAsSynced marked the batch's key only
WitMarkSyncedFrame ==
    \E p \in Procs :
        /\ pc[p] = "pull" /\ outcome[p] = "ok" /\ pushResult[p].synced = 1
        /\ Cardinality(getPendingTransactions(transactions)) = 1
        /\ Cardinality(SyncedKeys(transactions)) = 1

\* C23 (syncStatus moves from pending to synced only): in every step, a
\* record that is synced and still in the table afterwards is still synced,
\* and a record that is pending and still in the table afterwards is as it
\* was, or as it was with syncStatus synced.
StatusMonotone ==
    [][\A t \in transactions : \A u \in transactions' :
         u.localId = t.localId =>
           /\ t.syncStatus = "synced" => u.syncStatus = "synced"
           /\ t.syncStatus = "pending" =>
                 \/ u = t
                 \/ u = [t EXCEPT !.syncStatus = "synced"]]_vars

\* a pull that inserted one row has ended while a pending record and the row
\* of the same id carry different amounts
WitStatusMonotone ==
    \E p \in Procs :
        /\ pc[p] = "done" /\ outcome[p] = "ok" /\ pullResult[p] = 1
        /\ \E t \in getPendingTransactions(transactions) :
              \E r \in remote : r.id = t.id /\ r.monto # t.monto

\* C24 (pending view): in every state, getPendingTransactions read at that
\* point returns records of the table only, each with syncStatus pending,
\* and every record of the table with syncStatus pending; the count shown
\* by a rendering at that point is the number of those records.
PendingView ==
    /\ getPendingTransactions(transactions) \subseteq transactions
    /\ \A t \in transactions :
          t \in getPendingTransactions(transactions)
            <=> t.syncStatus = "pending"
    /\ PendingCount(transactions) =
          Cardinality({t.localId : t \in {u \in transactions :
                                            u.syncStatus = "pending"}})

\* with no sync running, the table holds a synced and a pending record: the
\* view holds one record
WitPendingView ==
    /\ \A p \in Procs : pc[p] = "idle"
    /\ Cardinality(transactions) = 2
    /\ SyncedKeys(transactions) # {}
    /\ PendingCount(transactions) = 1

\* C25 (rows without identity): a successful pull leaves the table without
\* any record of empty id, counts in pulled no more rows than those with an
\* id, and, when the response holds a row without id, still leaves a record
\* for every row of the response that has one.
SkipNoId ==
    [][\A p \in Procs :
         (pc[p] = "pull_fetch" /\ outcome'[p] = "ok") =>
           /\ \A t \in transactions' : t.id # NoId
           /\ pullResult'[p] <= Cardinality({r \in remote : r.id # NoId})
           /\ Cardinality(transactions') - Cardinality(transactions)
                 <= Cardinality({r \in remote : r.id # NoId})
           /\ (\E r \in remote : r.id = NoId) =>
                 \A r \in remote :
                     r.id # NoId => \E t \in transactions' : t.id = r.id]_vars

\* a pull of three rows, one of them without id, has ended with pulled = 2
\* and two records in the table
WitSkipNoId ==
    \E p \in Procs :
        /\ pc[p] = "done" /\ outcome[p] = "ok" /\ pullResult[p] = 2
        /\ Cardinality(remote) = 3 /\ \E r \in remote : r.id = NoId
        /\ Cardinality(transactions) = 2

\* C26 (amounts are positive): every record of the table has monto > 0.
AmountPositive ==
    \A t \in transactions : t.monto > 0

InDays(store, s, e) ==
    {t \in store : t.fecha # NoDay /\ s <= t.fecha /\ t.fecha <= e}

\* the sum of the amounts of the records of a set under the keys 1..n that
\* are (ing = TRUE) or are not (ing = FALSE) of tipo ingreso
RECURSIVE SumKeys(_, _, _)
SumKeys(S, n, ing) ==
    IF n = 0 THEN 0
    ELSE SumKeys(S, n - 1, ing) +
         (IF \E t \in S : t.localId = n /\ ((t.tipo = "ingreso") = ing)
            THEN (CHOOSE t \in S : t.localId = n).monto
            ELSE 0)

\* C28 (summary): in every state, for every range of days and every time
\* zone, getSummary returns as totalIngresos the sum of the amounts of the
\* records of tipo ingreso whose fecha is in the range, as totalGastos the
\* sum of the amounts of the other records in the range, as balance their
\* difference and as transacciones the number of records in the range.
SummaryTotals ==
    \A s \in Days, e \in Days, tz \in TzOffsets :
        LET r == getSummary(transactions, s, e, tz)
            in == InDays(transactions, s, e)
        IN  /\ r.totalIngresos = SumKeys(in, MaxKey + 1, TRUE)
            /\ r.totalGastos = SumKeys(in, MaxKey + 1, FALSE)
            /\ r.balance = r.totalIngresos - r.totalGastos
            /\ r.transacciones = Cardinality(in)

\* the only record ever added is an income of 500 dated today: it is the
\* pending view, and the summary of today is {500, 0, 500, 1} in every time
\* zone
WitSummaryTotals ==
    /\ nextLocalId = 2 /\ Cardinality(transactions) = 1
    /\ \A t \in transactions :
          /\ t.tipo = "ingreso" /\ t.monto = 500 /\ t.fecha = now
          /\ getPendingTransactions(transactions) = {t}
    /\ \A tz \in TzOffsets :
          getSummary(transactions, now, now, tz) =
            [totalIngresos |-> 500, totalGastos |-> 0, balance |-> 500,
             transacciones |-> 1]

\* C29 (date range): in every state, for every start and end day and every
\* time zone, getTransactionsByDateRange returns the records whose fecha is
\* a day from start to end, both included, whatever their createdAt and
\* syncStatus.
DateRangeInclusive ==
    \A s \in 1..(MaxClock + 1), e \in 1..(MaxClock + 1), tz \in TzOffsets :
        getTransactionsByDateRange(transactions, s, e, tz) =
          InDays(transactions, s, e)

\* a synced record dated day 1 and created on day 2 is in the range of day 1
\* and not in the range of day 2, in every time zone, and a record pulled
\* without fecha is in neither
WitDateRangeInclusive ==
    /\ \E t \in transactions :
          /\ t.syncStatus = "synced" /\ t.fecha = 1 /\ t.createdAt = 2
          /\ \A tz \in TzOffsets :
                /\ t \in getTransactionsByDateRange(transactions, 1, 1, tz)
                /\ t \notin getTransactionsByDateRange(transactions, 2, 2, tz)
    /\ \E t \in transactions : t.fecha = NoDay

\* C30 (list of all records): in every state, getAllTransactions returns a
\* sequence that holds every record of the table once and no other, in
\* which no record comes before one with a later createdAt.
ListAllOrdered ==
    LET l == getAllTransactions(transactions) IN
      /\ Len(l) = Cardinality(transactions)
      /\ {l[i] : i \in 1..Len(l)} = transactions
      /\ \A i \in 1..Len(l) : \A j \in 1..Len(l) :
            i < j => l[i].createdAt >= l[j].createdAt

\* the table holds a record added in the form on day 1 and a record inserted
\* later by a pull; the list starts with the pulled one
WitListAllOrdered ==
    /\ Cardinality(transactions) = 2
    /\ \E t \in transactions : \E u \in transactions :
          /\ t.id \in 1..MaxKey /\ t.createdAt = 1
          /\ u.id \in OtherIds /\ u.createdAt = 2 /\ u.localId > t.localId
          /\ getAllTransactions(transactions) = <<u, t>>

(* ------------------------------- C31 ----------------------------------- *)

\* C31: synced implies acknowledged.  In every reachable state every local
\* record whose syncStatus is synced has its id in the remote ledger: it
\* was inserted by a pull of that ledger or was in a batch the ledger stored
\* and acknowledged (the ledger never removes a row).
SyncedAcknowledged ==
    \A t \in transactions :
        t.syncStatus = "synced" => t.id \in RemoteIds(remote)

\* a record created here and acknowledged next to a record that was pulled
WitSyncedAcknowledged ==
    /\ \E t \in transactions : /\ t.syncStatus = "synced"
                               /\ t.id \in 1..MaxKey
                               /\ t.id \in RemoteIds(remote)
    /\ \E u \in transactions : /\ u.syncStatus = "synced"
                               /\ u.id \in OtherIds
                               /\ u.id \in RemoteIds(remote)

(* ------------------------------- C32 ----------------------------------- *)

\* C32: a record added while a POST is in flight, hence pending and not in
\* the batch read before the request, is left as it is when the POST is
\* acknowledged: it is still pending afterwards, and the next push, which
\* reads every pending record, sends it.
AddedInFlightStaysPending ==
    [][\A p \in Procs :
         /\ (pc[p] = "push_fetch" /\ pc'[p] = "pull" /\ outcome'[p] = "ok") =>
                \A t \in transactions :
                    (/\ t.syncStatus = "pending"
                     /\ t.localId \notin {b.localId : b \in batch[p]})
                    => t \in transactions'
         /\ (pc[p] = "push" /\ pc'[p] = "push_fetch") =>
                /\ batch'[p] = {t \in transactions :
                                    t.syncStatus = "pending"}
                /\ batch'[p] # {}]_vars

\* key 1 was acknowledged; a later push has the record of key 2, created
\* after the first batch was read, in its batch
WitAddedInFlightStaysPending ==
    \E p \in Procs :
        /\ pc[p] = "push_fetch"
        /\ \E t \in transactions : t.localId = 1 /\ t.syncStatus = "synced"
        /\ \E t \in batch[p] : t.localId = 2 /\ t.syncStatus = "pending"
        /\ \A t \in batch[p] : t.localId = 2

(* ------------------------------- C33 ----------------------------------- *)

\* C33: each record created here is in at most one push batch that the
\* ledger acknowledges, whatever the interleaving of the sync calls: two
\* POSTs in flight never carry the same record, and a record of an
\* acknowledged batch had not been acknowledged before.
AcknowledgedOnce ==
    [][/\ \A p, q \in Procs :
            (p # q /\ pc'[p] = "push_fetch" /\ pc'[q] = "push_fetch") =>
                {t.localId : t \in batch'[p]}
                    \cap {t.localId : t \in batch'[q]} = {}
       /\ \A p \in Procs :
            (pc[p] = "push_fetch" /\ pc'[p] = "pull" /\ outcome'[p] = "ok") =>
                \A b \in batch[p] : \A t \in transactions :
                    t.localId = b.localId => t.syncStatus = "pending"]_vars

(* ------------------------------- C34 ----------------------------------- *)

\* C34: a record created on this device is never counted in pulled by a
\* pull on this device while it is in the table.  Whether it is pending or
\* synced, a successful pull whose rows hold its id inserts no record for
\* that id (the record keeps its key and no other record has its id), and
\* pulled counts at most the rows whose id no record had.
OwnNeverPulled ==
    [][\A p \in Procs :
         (pc[p] = "pull_fetch" /\ pc'[p] = "done" /\ outcome'[p] = "ok") =>
            /\ \A t \in transactions :
                 (t.id \in 1..MaxKey /\ t.id \in RemoteIds(remote)) =>
                    \A u \in transactions' :
                        u.id = t.id => u.localId = t.localId
            /\ pullResult'[p] <=
                 Cardinality({r \in remote :
                                \A t \in transactions : t.id # r.id})]_vars

\* a pull that returned the rows of two records created here, one still
\* pending (its acknowledgment was lost) and one synced, and counted none
WitOwnNeverPulled ==
    \E p \in Procs :
        /\ pc[p] = "done" /\ outcome[p] = "ok" /\ pullResult[p] = 0
        /\ \E t \in transactions : /\ t.syncStatus = "pending"
                                   /\ t.id \in 1..MaxKey
                                   /\ t.id \in RemoteIds(remote)
        /\ \E t \in transactions : /\ t.syncStatus = "synced"
                                   /\ t.id \in 1..MaxKey
                                   /\ t.localId = t.id
                                   /\ t.id \in RemoteIds(remote)

(* ------------------------------- C35 ----------------------------------- *)

\* C35: a failed pull changes nothing locally.  When pull's precondition
\* fails (offline or no URL), the GET rejects, or the response has a
\* non-success status, no record is inserted or modified, the last-sync
\* watermark keeps its value and pulled is 0.
FailedPullNoChange ==
    [][\A p \in Procs :
         (/\ pc[p] \in {"pull", "pull_fetch"}
          /\ pc'[p] = "done"
          /\ outcome'[p] \in {"skipped", "status", "caught"}) =>
            /\ transactions' = transactions
            /\ nextLocalId' = nextLocalId
            /\ lastSync' = lastSync
            /\ pullResult'[p] = 0]_vars

\* a GET that failed while the ledger held a row the table lacks
WitFailedPullNoChange ==
    \E p \in Procs :
        /\ pc[p] = "done"
        /\ outcome[p] \in {"status", "caught"}
        /\ pullResult[p] = 0
        /\ lastSync = NoTime
        /\ \E r \in remote : \A t \in transactions : t.id # r.id

(* ------------------------------- C36 ----------------------------------- *)

\* C36: a combined sync runs its pull phase whatever the push outcome.
\* After a failed POST (non-success status or rejection) the call goes on
\* to pullRemoteTransactions with synced = 0; the pull sends its GET if the
\* device is online and a URL is set at that time, and returns pulled = 0
\* without a request otherwise; the pull leaves the push's result as it
\* is, and the value returned combines synced and pending of the push with
\* pulled of the pull.
PullAfterFailedPush ==
    [][\A p \in Procs :
         /\ (/\ pc[p] = "push_fetch" /\ pc'[p] # "push_fetch"
             /\ outcome'[p] # "ok") =>
                /\ pc'[p] = "pull"
                /\ outcome'[p] \in {"status", "caught"}
                /\ pushResult'[p].synced = 0
         /\ (/\ pc[p] = "pull" /\ pc'[p] # "pull"
             /\ outcome[p] \in {"status", "caught"}) =>
                IF Precondition(online, apiUrl)
                  THEN pc'[p] = "pull_fetch"
                  ELSE pc'[p] = "done" /\ pullResult'[p] = 0
         /\ (pc[p] \in {"pull", "pull_fetch"}) =>
                pushResult'[p] = pushResult[p]
         /\ (pc[p] = "pull_fetch" /\ pc'[p] = "done") =>
                SyncResult(p)' = [synced |-> pushResult[p].synced,
                                  pulled |-> pullResult'[p],
                                  pending |-> pushResult[p].pending]]_vars

\* C36 as stated: after a failed POST the GET is always sent
PullRequestAfterFailedPush ==
    [][\A p \in Procs :
         (/\ pc[p] = "pull" /\ pc'[p] # "pull"
          /\ outcome[p] \in {"status", "caught"}) =>
            pc'[p] = "pull_fetch"]_vars

\* a call whose POST failed and whose GET then brought one new record
WitPullAfterFailedPush ==
    \E p \in Procs :
        /\ pc[p] = "done" /\ outcome[p] = "ok"
        /\ SyncResult(p).synced = 0
        /\ SyncResult(p).pending = 1
        /\ SyncResult(p).pulled = 1
        /\ \E t \in transactions : t.syncStatus = "pending"

(* ------------------------------- C37 ----------------------------------- *)

\* C37: deleted-record resurrection.  A record created here, synced and then
\* deleted locally while the ledger still has its id is inserted again as
\* a synced record by the next successful pull, which counts it in pulled.
\* A pending record deleted before any push read it (its id is in no batch
\* in flight and not in the ledger) is never transmitted and never comes
\* back: its id stays out of the ledger and out of the table.
DeletedResurrection ==
    [][/\ \A p \in Procs :
            (pc[p] = "pull_fetch" /\ pc'[p] = "done" /\ outcome'[p] = "ok") =>
                LET gone == {r \in remote :
                               /\ r.id \in 1..MaxKey
                               /\ \A t \in transactions : t.id # r.id}
                IN  /\ \A r \in gone : \E u \in transactions' :
                           u.id = r.id /\ u.syncStatus = "synced"
                    /\ pullResult'[p] >= Cardinality(gone)
       /\ \A i \in 1..MaxKey :
            (/\ i < nextLocalId
             /\ \A t \in transactions : t.id # i
             /\ i \notin RemoteIds(remote)
             /\ \A p \in Procs : \A b \in batch[p] : b.id # i) =>
                /\ i \notin RemoteIds(remote')
                /\ \A t \in transactions' : t.id # i
                /\ \A p \in Procs : \A b \in batch'[p] : b.id # i]_vars

\* the record of id 1, pushed and deleted, is back under key 2 after a pull
\* that counted it
WitDeletedResurrection ==
    \E p \in Procs :
        /\ pc[p] = "done" /\ outcome[p] = "ok" /\ pullResult[p] = 1
        /\ \E t \in transactions :
              t.id = 1 /\ t.localId = 2 /\ t.syncStatus = "synced"

(* ------------------------------- C38 ----------------------------------- *)

\* C38: the endpoint configuration is read at each push and pull call.
\* With the URL last saved by setApiUrl non-empty, a push started online
\* with pending records sends its POST and a pull started online sends its
\* GET, with no restart in between; with the URL last saved empty, push and
\* pull are no-ops: no request, no change of the table or of the ledger,
\* results {synced: 0, pending: 0} and {pulled: 0}.
UrlReadAtEachCall ==
    [][\A p \in Procs :
         /\ (pc[p] = "push" /\ pc'[p] # "push") =>
              IF apiUrl = ""
                THEN /\ pc'[p] = "pull"
                     /\ pushResult'[p] = [synced |-> 0, pending |-> 0]
                     /\ batch'[p] = {}
                     /\ transactions' = transactions
                     /\ remote' = remote
                ELSE (online /\ getPendingTransactions(transactions) # {})
                        => pc'[p] = "push_fetch"
         /\ (pc[p] = "pull" /\ pc'[p] # "pull") =>
              IF apiUrl = ""
                THEN /\ pc'[p] = "done"
                     /\ pullResult'[p] = 0
                     /\ transactions' = transactions
                     /\ lastSync' = lastSync
                ELSE online => pc'[p] = "pull_fetch"]_vars

\* both cases in one run: a record was sent and acknowledged under a saved
\* URL, then the URL was removed and a sync of the 'online' listener ended
\* without a request while a record was pending
WitUrlReadAtEachCall ==
    /\ apiUrl = "" /\ online
    /\ pc["online"] = "done" /\ outcome["online"] = "skipped"
    /\ SyncResult("online") = [synced |-> 0, pulled |-> 0, pending |-> 0]
    /\ \E t \in transactions : t.syncStatus = "pending"
    /\ \E t \in transactions : /\ t.syncStatus = "synced"
                               /\ t.id \in 1..MaxKey

====
